---- MODULE Spec2Model ----
(***************************************************************************)
(* A model of the bit_vector library (Yash3667/bit_vector).                *)
(*                                                                         *)
(* A bit vector is a heap object {array, length, index, vector_type}.      *)
(* array is a byte buffer, modelled as a sequence of integers 0..255 whose *)
(* length is the number of bytes the allocator handed out; byte j of the   *)
(* C array is array[j + 1].  The library is single threaded: every API     *)
(* call is one atomic action.  Two handles (slots) are modelled so that    *)
(* bit_vector_append_vector can be called with dest # src and dest = src.  *)
(*                                                                         *)
(* C strings are sequences of character codes ('0' = 48, '1' = 49).        *)
(***************************************************************************)
EXTENDS Integers, Sequences, FiniteSets, TLC

VARIABLES vec, last, ghost, track

vars == <<vec, last, ghost, track>>

(***************************************************************************)
(* Bounds of the model.                                                    *)
(***************************************************************************)
\* largest length (in bits) handed to bit_vector_create / bit_vector_resize
MaxLen == 9
\* largest number of bits a stream is driven to hold in the stack model
MaxStack == 9
\* longest C string handed to the string functions in the string model
MaxStr == 9
\* largest number of appended bits a stream is driven to in the API models
MaxBits == 3

(***************************************************************************)
(* Program constants.                                                      *)
(***************************************************************************)
BIT_VECTOR_BITS_IN_BYTE == 8
BIT_VECTOR_TYPE_STREAM == 0
BIT_VECTOR_TYPE_ARRAY == 1
BIT_VECTOR_STATE_CLEAR == 0
BIT_VECTOR_STATE_SET == 1
ascii_zero_value == 48

NULL == [null |-> TRUE]

Slots == {1, 2}
Types == {BIT_VECTOR_TYPE_STREAM, BIT_VECTOR_TYPE_ARRAY}

\* Values a byte of heap memory that was never written can hold.
GarbageBytes == {0, 255}

\* Results of 1 << ((int)log2(0) + 1): converting -inf to int and shifting by
\* a negative count are both undefined.  x86, ARM and RISC-V builds saturate
\* the conversion to INT_MIN and mask the shift count (1 << 1); legacy MIPS
\* converts to INT_MAX, the increment wraps and the masked count is 0.
UndefinedShift == {1, 2}

(***************************************************************************)
(* Macros of the header.                                                   *)
(***************************************************************************)
\* the macro without its extra byte: a length that is no multiple of 8 gets
\* no byte for its last bits
BIT_VECTOR_BITS_TO_BYTES_floor(b) == b \div BIT_VECTOR_BITS_IN_BYTE

BIT_VECTOR_BITS_TO_BYTES(b) == (b \div BIT_VECTOR_BITS_IN_BYTE) + 1

BIT_VECTOR_GET_BYTE_INDEX(i) == i \div BIT_VECTOR_BITS_IN_BYTE

BIT_VECTOR_GET_BIT_INDEX(i) == i % 8

(***************************************************************************)
(* Arithmetic helpers: C operators on uint8_t values.                      *)
(***************************************************************************)
RECURSIVE Pow2(_)
Pow2(n) == IF n = 0 THEN 1 ELSE 2 * Pow2(n - 1)

\* (byte & (1 << k)) != 0
ByteBit(byte, k) == (byte \div Pow2(k)) % 2

\* byte | (1 << k)
ByteOr(byte, k) == IF ByteBit(byte, k) = 1 THEN byte ELSE byte + Pow2(k)

\* byte & (uint8_t)~(1 << k)
ByteAndNot(byte, k) == IF ByteBit(byte, k) = 1 THEN byte - Pow2(k) ELSE byte

\* (int)log2(x) for x >= 1
RECURSIVE IntLog2(_)
IntLog2(x) == IF x <= 1 THEN 0 ELSE 1 + IntLog2(x \div 2)

\* conversion of an int to uint8_t
ToUint8(x) == x % 256

\* conversion of a uint8_t to int8_t
ToInt8(x) == IF x >= 128 THEN x - 256 ELSE x

\* the result record of an API function: the vector afterwards (NULL when it
\* was never created), the int return value, whether a returned pointer is
\* non-NULL, and the errno the call sets ("" when it sets none)
Res(vector, ret, ptr, errno) ==
    [vector |-> vector, ret |-> ret, ptr |-> ptr, errno |-> errno]

(***************************************************************************)
(* bit_vector_create                                                       *)
(***************************************************************************)
\* shift is the value the undefined expression takes when length = 0;
\* nomem: malloc or calloc returns NULL
bit_vector_create(type, length, shift, nomem) ==
    LET temp_length ==
            IF type = BIT_VECTOR_TYPE_STREAM
            THEN IF length = 0 THEN shift ELSE Pow2(IntLog2(length) + 1)
            ELSE length
    IN  IF nomem THEN NULL
        ELSE [array       |-> [j \in 1..BIT_VECTOR_BITS_TO_BYTES(temp_length) |-> 0],
              length      |-> temp_length,
              index       |-> 0,
              vector_type |-> type]

(***************************************************************************)
(* bit_vector_set / bit_vector_clear / bit_vector_get                      *)
(***************************************************************************)
\* bit_vector_set with its bounds check off by one (index > length)
bit_vector_set_off_by_one(vector, index) ==
    IF vector = NULL \/ index > vector.length
    THEN Res(vector, -1, FALSE, "EINVAL")
    ELSE LET j == BIT_VECTOR_GET_BYTE_INDEX(index) + 1
             or_bits == BIT_VECTOR_GET_BIT_INDEX(index)
         IN  Res([vector EXCEPT !.array[j] = ByteOr(@, or_bits)], 0, FALSE, "")

bit_vector_set(vector, index) ==
    IF vector = NULL \/ index >= vector.length
    THEN Res(vector, -1, FALSE, "EINVAL")
    ELSE LET j == BIT_VECTOR_GET_BYTE_INDEX(index) + 1
             or_bits == BIT_VECTOR_GET_BIT_INDEX(index)
         IN  Res([vector EXCEPT !.array[j] = ByteOr(@, or_bits)], 0, FALSE, "")

\* bit_vector_clear with a mask that was not complemented: the byte is
\* and-ed with (1 << bit) and loses every other bit
bit_vector_clear_keep_mask(vector, index) ==
    IF vector = NULL \/ index >= vector.length
    THEN Res(vector, -1, FALSE, "EINVAL")
    ELSE LET j == BIT_VECTOR_GET_BYTE_INDEX(index) + 1
             and_bits == BIT_VECTOR_GET_BIT_INDEX(index)
         IN  Res([vector EXCEPT !.array[j] = ByteBit(@, and_bits) * Pow2(and_bits)],
                 0, FALSE, "")

bit_vector_clear(vector, index) ==
    IF vector = NULL \/ index >= vector.length
    THEN Res(vector, -1, FALSE, "EINVAL")
    ELSE LET j == BIT_VECTOR_GET_BYTE_INDEX(index) + 1
             and_bits == BIT_VECTOR_GET_BIT_INDEX(index)
         IN  Res([vector EXCEPT !.array[j] = ByteAndNot(@, and_bits)], 0, FALSE, "")

bit_vector_get(vector, index) ==
    IF vector = NULL \/ index >= vector.length
    THEN Res(vector, -1, FALSE, "EINVAL")
    ELSE LET j == BIT_VECTOR_GET_BYTE_INDEX(index) + 1
             and_bits == BIT_VECTOR_GET_BIT_INDEX(index)
         IN  Res(vector, ByteBit(vector.array[j], and_bits), FALSE, "")

(***************************************************************************)
(* bit_vector_resize                                                       *)
(***************************************************************************)
\* bit_vector_resize that keeps the buffer when the new size is smaller
bit_vector_resize_keep(vector, length, garbage, nomem) ==
    IF vector = NULL THEN Res(vector, 0, FALSE, "EINVAL")
    ELSE IF nomem THEN Res(vector, 0, FALSE, "ENOMEM")
    ELSE LET n == BIT_VECTOR_BITS_TO_BYTES(length)
             temp_array == IF n <= Len(vector.array) THEN vector.array
                           ELSE [j \in 1..n |->
                                    IF j <= Len(vector.array)
                                    THEN vector.array[j] ELSE garbage]
         IN  Res([vector EXCEPT !.array = temp_array, !.length = length],
                 0, TRUE, "")

\* bit_vector_resize that stores the new length before it looks at what
\* realloc returned
bit_vector_resize_early(vector, length, garbage, nomem) ==
    IF vector = NULL THEN Res(vector, 0, FALSE, "EINVAL")
    ELSE IF nomem
    THEN Res([vector EXCEPT !.length = length], 0, FALSE, "ENOMEM")
    ELSE LET n == BIT_VECTOR_BITS_TO_BYTES(length)
             temp_array == [j \in 1..n |->
                               IF j <= Len(vector.array) THEN vector.array[j]
                               ELSE garbage]
         IN  Res([vector EXCEPT !.array = temp_array, !.length = length],
                 0, TRUE, "")

\* realloc keeps the common prefix of the bytes and the bytes it adds hold
\* garbage; nomem: realloc returns NULL and the vector is left as it was
bit_vector_resize(vector, length, garbage, nomem) ==
    IF vector = NULL THEN Res(vector, 0, FALSE, "EINVAL")
    ELSE IF nomem THEN Res(vector, 0, FALSE, "ENOMEM")
    ELSE LET n == BIT_VECTOR_BITS_TO_BYTES(length)
             temp_array == [j \in 1..n |->
                               IF j <= Len(vector.array) THEN vector.array[j]
                               ELSE garbage]
         IN  Res([vector EXCEPT !.array = temp_array, !.length = length],
                 0, TRUE, "")

(***************************************************************************)
(* bit_vector_detach                                                       *)
(***************************************************************************)
\* bit_vector_detach reading the bit before it takes 1 off index
bit_vector_detach_stale(vector) ==
    IF vector = NULL THEN Res(vector, -1, FALSE, "EINVAL")
    ELSE IF vector.vector_type = BIT_VECTOR_TYPE_ARRAY
    THEN Res(vector, -1, FALSE, "EINVAL")
    ELSE IF vector.index = 0 THEN Res(vector, -1, FALSE, "ENOSR")
    ELSE LET v1 == [vector EXCEPT !.index = @ - 1]
             bit == ToUint8(bit_vector_get(vector, vector.index).ret)
         IN  Res(v1, ToInt8(bit), FALSE, bit_vector_get(vector, vector.index).errno)

bit_vector_detach(vector) ==
    IF vector = NULL THEN Res(vector, -1, FALSE, "EINVAL")
    ELSE IF vector.vector_type = BIT_VECTOR_TYPE_ARRAY
    THEN Res(vector, -1, FALSE, "EINVAL")
    ELSE IF vector.index = 0 THEN Res(vector, -1, FALSE, "ENOSR")
    ELSE LET v1 == [vector EXCEPT !.index = @ - 1]
             bit == ToUint8(bit_vector_get(v1, v1.index).ret)
         IN  Res(v1, ToInt8(bit), FALSE, bit_vector_get(v1, v1.index).errno)

(***************************************************************************)
(* bit_vector_append_bit                                                   *)
(***************************************************************************)
\* bit_vector_append_bit without its check of the vector type
bit_vector_append_bit_any_type(vector, bit, garbage, nomem) ==
    IF vector = NULL THEN Res(vector, 0, FALSE, "EINVAL")
    ELSE IF bit > BIT_VECTOR_STATE_SET THEN Res(vector, 0, FALSE, "EINVAL")
    ELSE LET grow == vector.index = vector.length
             r    == bit_vector_resize(vector, vector.length * 2, garbage, nomem)
         IN  IF grow /\ ~r.ptr THEN Res(vector, 0, FALSE, r.errno)
             ELSE LET v1 == IF grow THEN r.vector ELSE vector
                      w  == IF bit = BIT_VECTOR_STATE_CLEAR
                            THEN bit_vector_clear(v1, v1.index)
                            ELSE bit_vector_set(v1, v1.index)
                  IN  Res([w.vector EXCEPT !.index = @ + 1], 0, TRUE, w.errno)

\* bit_vector_append_bit growing a full stream by one bit instead of doubling
bit_vector_append_bit_grow_one(vector, bit, garbage, nomem) ==
    IF vector = NULL THEN Res(vector, 0, FALSE, "EINVAL")
    ELSE IF bit > BIT_VECTOR_STATE_SET THEN Res(vector, 0, FALSE, "EINVAL")
    ELSE IF vector.vector_type = BIT_VECTOR_TYPE_ARRAY
    THEN Res(vector, 0, FALSE, "EINVAL")
    ELSE LET grow == vector.index = vector.length
             r    == bit_vector_resize(vector, vector.length + 1, garbage, nomem)
         IN  IF grow /\ ~r.ptr THEN Res(vector, 0, FALSE, r.errno)
             ELSE LET v1 == IF grow THEN r.vector ELSE vector
                      w  == IF bit = BIT_VECTOR_STATE_CLEAR
                            THEN bit_vector_clear(v1, v1.index)
                            ELSE bit_vector_set(v1, v1.index)
                  IN  Res([w.vector EXCEPT !.index = @ + 1], 0, TRUE, w.errno)

\* garbage fills the bytes a realloc adds; nomem: the realloc returns NULL
bit_vector_append_bit(vector, bit, garbage, nomem) ==
    IF vector = NULL THEN Res(vector, 0, FALSE, "EINVAL")
    ELSE IF bit > BIT_VECTOR_STATE_SET THEN Res(vector, 0, FALSE, "EINVAL")
    ELSE IF vector.vector_type = BIT_VECTOR_TYPE_ARRAY
    THEN Res(vector, 0, FALSE, "EINVAL")
    ELSE LET grow == vector.index = vector.length
             r    == bit_vector_resize(vector, vector.length * 2, garbage, nomem)
         IN  IF grow /\ ~r.ptr THEN Res(vector, 0, FALSE, r.errno)
             ELSE LET v1 == IF grow THEN r.vector ELSE vector
                      w  == IF bit = BIT_VECTOR_STATE_CLEAR
                            THEN bit_vector_clear(v1, v1.index)
                            ELSE bit_vector_set(v1, v1.index)
                  IN  Res([w.vector EXCEPT !.index = @ + 1], 0, TRUE, w.errno)

(***************************************************************************)
(* bit_vector_append_string                                                *)
(***************************************************************************)
\* the for loop, from character i (1-based) on
RECURSIVE append_string_loop(_, _, _, _, _)
append_string_loop(vector, bit_string, i, garbage, nomem) ==
    IF i > Len(bit_string) THEN Res(vector, 0, TRUE, "")
    ELSE LET r == bit_vector_append_bit(
                      vector, ToUint8(bit_string[i] - ascii_zero_value),
                      garbage, nomem)
         IN  IF ~r.ptr THEN Res(r.vector, 0, FALSE, r.errno)
             ELSE append_string_loop(r.vector, bit_string, i + 1, garbage, nomem)

bit_vector_append_string(vector, bit_string, garbage, nomem) ==
    IF vector = NULL THEN Res(vector, 0, FALSE, "EINVAL")
    ELSE IF vector.vector_type = BIT_VECTOR_TYPE_ARRAY
    THEN Res(vector, 0, FALSE, "EINVAL")
    ELSE append_string_loop(vector, bit_string, 1, garbage, nomem)

(***************************************************************************)
(* bit_vector_append_vector                                                *)
(***************************************************************************)
\* the for loop, from bit i on; when dest and src are the same object (self)
\* every bit_vector_get reads the vector as the appends so far left it
RECURSIVE append_vector_loop(_, _, _, _, _, _, _)
append_vector_loop(dest, src, self, i, append_length, garbage, nomem) ==
    IF i >= append_length THEN Res(dest, 0, TRUE, "")
    ELSE LET from == IF self THEN dest ELSE src
             bit  == ToUint8(bit_vector_get(from, i).ret)
             r    == bit_vector_append_bit(dest, bit, garbage, nomem)
         IN  IF ~r.ptr THEN Res(r.vector, 0, FALSE, r.errno)
             ELSE append_vector_loop(r.vector, src, self, i + 1,
                                     append_length, garbage, nomem)

bit_vector_append_vector(dest, src, self, size, garbage, nomem) ==
    IF dest = NULL \/ src = NULL THEN Res(dest, 0, FALSE, "EINVAL")
    ELSE IF dest.vector_type = BIT_VECTOR_TYPE_ARRAY
    THEN Res(dest, 0, FALSE, "EINVAL")
    ELSE LET append_length ==
                 IF size = 0
                 THEN IF src.vector_type = BIT_VECTOR_TYPE_ARRAY
                      THEN src.length ELSE src.index
                 ELSE size
         IN  append_vector_loop(dest, src, self, 0, append_length, garbage, nomem)

(***************************************************************************)
(* bit_vector_string_to_vector / bit_vector_vector_to_string               *)
(***************************************************************************)
\* nomem: bit_vector_create cannot allocate; nomem_resize: a realloc of the
\* appends returns NULL
bit_vector_string_to_vector(bit_string, shift, garbage, nomem, nomem_resize) ==
    LET this_vector == bit_vector_create(BIT_VECTOR_TYPE_STREAM, 0, shift, nomem)
    IN  IF this_vector = NULL THEN Res(NULL, 0, FALSE, "ENOMEM")
        ELSE bit_vector_append_string(this_vector, bit_string, garbage,
                                      nomem_resize)

\* bit_vector_vector_to_string taking length as the string length of a
\* stream too
bit_vector_vector_to_string_length(vector, nomem) ==
    IF vector = NULL THEN [str |-> <<>>, ptr |-> FALSE, errno |-> "EINVAL"]
    ELSE IF nomem THEN [str |-> <<>>, ptr |-> FALSE, errno |-> "ENOMEM"]
    ELSE [str   |-> [i \in 1..vector.length |->
                        bit_vector_get(vector, i - 1).ret + ascii_zero_value],
          ptr   |-> TRUE,
          errno |-> ""]

\* the C string returned (without its terminator); <<>> also when NULL is
\* returned, which the ptr field tells apart; nomem: calloc returns NULL
bit_vector_vector_to_string(vector, nomem) ==
    IF vector = NULL THEN [str |-> <<>>, ptr |-> FALSE, errno |-> "EINVAL"]
    ELSE IF nomem THEN [str |-> <<>>, ptr |-> FALSE, errno |-> "ENOMEM"]
    ELSE LET string_length ==
                 IF vector.vector_type = BIT_VECTOR_TYPE_ARRAY
                 THEN vector.length ELSE vector.index
         IN  [str   |-> [i \in 1..string_length |->
                            bit_vector_get(vector, i - 1).ret + ascii_zero_value],
              ptr   |-> TRUE,
              errno |-> ""]

(***************************************************************************)
(* State.  vec[v] is the object handle v points to, or NULL.  last records *)
(* the API call made last: its name, its arguments, what it returned and   *)
(* the handles as they were before it.  ghost[v] is specification state    *)
(* maintained when track is set (the focused models below): bits is the    *)
(* bit map the set/clear calls since bit_vector_create describe, stack the *)
(* bits appended and not yet detached, popped the bit the last detach took *)
(* off that stack.                                                         *)
(***************************************************************************)
NoGhost == [bits |-> <<>>, stack |-> <<>>, popped |-> -1]

\* the specification state of handle v after the call `call` left it as
\* vector: what the calls are meant to do, told from their arguments alone
GhostAfter(g, call, v, vector) ==
    IF call.v # v THEN g
    ELSE IF vector = NULL THEN NoGhost
    ELSE IF call.op = "create"
    THEN [bits   |-> [i \in 1..vector.length |-> 0],
          stack  |-> <<>>,
          popped |-> -1]
    ELSE IF call.op = "set" /\ call.arg < Len(g.bits)
    THEN [g EXCEPT !.bits[call.arg + 1] = 1, !.popped = -1]
    ELSE IF call.op = "clear" /\ call.arg < Len(g.bits)
    THEN [g EXCEPT !.bits[call.arg + 1] = 0, !.popped = -1]
    ELSE IF call.op = "append_bit" /\ call.arg \in {0, 1}
                                   /\ call.errno # "ENOMEM"
    THEN [g EXCEPT !.stack = Append(@, call.arg), !.popped = -1]
    ELSE IF call.op = "detach" /\ g.stack # <<>>
    THEN [g EXCEPT !.stack = SubSeq(@, 1, Len(@) - 1),
                   !.popped = g.stack[Len(g.stack)]]
    ELSE [g EXCEPT !.popped = -1]

Track ==
    /\ track' = track
    /\ ghost' = IF track
                THEN [v \in Slots |-> GhostAfter(ghost[v], last', v, vec'[v])]
                ELSE ghost

Call(op, v, src, arg, str, r, out, pre) ==
    [op |-> op, v |-> v, src |-> src, arg |-> arg, str |-> str,
     ret |-> r.ret, ptr |-> r.ptr, errno |-> r.errno, out |-> out, pre |-> pre]

Init ==
    /\ vec = [v \in Slots |-> NULL]
    /\ ghost = [v \in Slots |-> NoGhost]
    /\ track = FALSE
    /\ last = Call("init", 0, 0, 0, <<>>, Res(NULL, 0, FALSE, ""), <<>>, vec)

\* inputs of the API models
Hints == {0, 3, MaxLen}
Indices == {0, 8, MaxLen}
Lengths == {0, 3, MaxLen}
Bits == {0, 1, 2}
Sizes == {0, 1, 3}
Strings == {<<>>, <<48, 49>>, <<49, 50, 48>>}

Create(v, type, length) ==
    /\ vec[v] = NULL
    /\ \E shift \in UndefinedShift, nomem \in BOOLEAN :
         LET vector == bit_vector_create(type, length, shift, nomem)
         IN  /\ vec' = [vec EXCEPT ![v] = vector]
             /\ last' = Call("create", v, type, length, <<>>,
                             Res(vector, 0, vector # NULL, ""), <<>>, vec)
             /\ Track

Free(v) ==
    /\ vec[v] # NULL
    /\ vec' = [vec EXCEPT ![v] = NULL]
    /\ last' = Call("free", v, v, 0, <<>>, Res(NULL, 0, FALSE, ""), <<>>, vec)
    /\ Track

Set(v, index) ==
    LET r == bit_vector_set(vec[v], index)
    IN  /\ vec' = [vec EXCEPT ![v] = r.vector]
        /\ last' = Call("set", v, v, index, <<>>, r, <<>>, vec)
        /\ Track

Clear(v, index) ==
    LET r == bit_vector_clear(vec[v], index)
    IN  /\ vec' = [vec EXCEPT ![v] = r.vector]
        /\ last' = Call("clear", v, v, index, <<>>, r, <<>>, vec)
        /\ Track

Get(v, index) ==
    LET r == bit_vector_get(vec[v], index)
    IN  /\ UNCHANGED vec
        /\ last' = Call("get", v, v, index, <<>>, r, <<>>, vec)
        /\ Track

Resize(v, length) ==
    \E garbage \in GarbageBytes, nomem \in BOOLEAN :
        LET r == bit_vector_resize(vec[v], length, garbage, nomem)
        IN  /\ vec' = [vec EXCEPT ![v] = r.vector]
            /\ last' = Call("resize", v, v, length, <<>>, r, <<>>, vec)
            /\ Track

Detach(v) ==
    LET r == bit_vector_detach(vec[v])
    IN  /\ vec' = [vec EXCEPT ![v] = r.vector]
        /\ last' = Call("detach", v, v, 0, <<>>, r, <<>>, vec)
        /\ Track

\* the allocator's answers matter only to a call that reaches realloc
ReachesRealloc(vector, bit) ==
    /\ vector # NULL
    /\ bit <= BIT_VECTOR_STATE_SET
    /\ vector.vector_type = BIT_VECTOR_TYPE_STREAM
    /\ vector.index = vector.length

\* limit bounds the number of bits the model lets a stream hold
AppendBit(v, bit, limit) ==
    \E garbage \in IF ReachesRealloc(vec[v], bit) THEN GarbageBytes ELSE {0},
       nomem \in IF ReachesRealloc(vec[v], bit) THEN BOOLEAN ELSE {FALSE} :
        LET r == bit_vector_append_bit(vec[v], bit, garbage, nomem)
        IN  /\ (IF r.vector = NULL THEN TRUE ELSE r.vector.index <= limit)
            /\ vec' = [vec EXCEPT ![v] = r.vector]
            /\ last' = Call("append_bit", v, v, bit, <<>>, r, <<>>, vec)
            /\ Track

AppendString(v, bit_string, limit) ==
    \E garbage \in GarbageBytes, nomem \in BOOLEAN :
        LET r == bit_vector_append_string(vec[v], bit_string, garbage, nomem)
        IN  /\ (IF r.vector = NULL THEN TRUE ELSE r.vector.index <= limit)
            /\ vec' = [vec EXCEPT ![v] = r.vector]
            /\ last' = Call("append_string", v, v, 0, bit_string, r, <<>>, vec)
            /\ Track

AppendVector(dest, src, size, limit) ==
    \E garbage \in GarbageBytes, nomem \in BOOLEAN :
        LET r == bit_vector_append_vector(vec[dest], vec[src], dest = src,
                                          size, garbage, nomem)
        IN  /\ (IF r.vector = NULL THEN TRUE ELSE r.vector.index <= limit)
            /\ vec' = [vec EXCEPT ![dest] = r.vector]
            /\ last' = Call("append_vector", dest, src, size, <<>>, r, <<>>, vec)
            /\ Track

\* the vector returned is received in handle v; when the append fails the
\* function returns NULL and the caller receives no vector
StringToVector(v, bit_string) ==
    /\ vec[v] = NULL
    /\ \E shift \in UndefinedShift, garbage \in GarbageBytes,
          nomem \in BOOLEAN, nomem_resize \in BOOLEAN :
         LET r == bit_vector_string_to_vector(bit_string, shift, garbage,
                                              nomem, nomem_resize)
         IN  /\ vec' = [vec EXCEPT ![v] = IF r.ptr THEN r.vector ELSE NULL]
             /\ last' = Call("string_to_vector", v, v, 0, bit_string, r, <<>>, vec)
             /\ Track

VectorToString(v) ==
    \E nomem \in BOOLEAN :
        LET r == bit_vector_vector_to_string(vec[v], nomem)
        IN  /\ UNCHANGED vec
            /\ last' = Call("vector_to_string", v, v, 0, <<>>,
                            Res(vec[v], 0, r.ptr, r.errno), r.str, vec)
            /\ Track

(***************************************************************************)
(* The API model: every call on one handle, any arguments.                 *)
(***************************************************************************)
Next ==
    \/ \E type \in Types, length \in Hints : Create(1, type, length)
    \/ Free(1)
    \/ \E index \in Indices : Set(1, index)
    \/ \E index \in Indices : Clear(1, index)
    \/ \E index \in Indices : Get(1, index)
    \/ \E length \in Lengths : Resize(1, length)
    \/ Detach(1)
    \/ \E bit \in Bits : AppendBit(1, bit, MaxBits)
    \/ \E bit_string \in Strings : AppendString(1, bit_string, MaxBits)
    \/ \E size \in Sizes : AppendVector(1, 1, size, MaxBits)
    \/ VectorToString(1)

Spec == Init /\ [][Next]_vars

(***************************************************************************)
(* The pair model: handle 1 is the destination, filled by create,          *)
(* append_string and resize; handle 2 is a second vector, filled by        *)
(* create, append_string and set; bit_vector_append_vector appends to      *)
(* handle 1 from either.                                                   *)
(***************************************************************************)
PairHints == {0, 3}
PairStrings == {<<49>>, <<48, 49>>}
PairLengths == {0, 1}

NextPair ==
    \/ \E v \in Slots, type \in Types, length \in PairHints :
           Create(v, type, length)
    \/ Set(2, 0)
    \/ \E length \in PairLengths : Resize(1, length)
    \/ \E v \in Slots, bit_string \in PairStrings :
           AppendString(v, bit_string, 2)
    \/ \E src \in Slots, size \in Sizes :
           AppendVector(1, src, size, MaxBits + 1)

SpecPair == Init /\ [][NextPair]_vars

(***************************************************************************)
(* The bit map model: one vector, created and then only set, cleared and   *)
(* read, at every index up to MaxLen.                                      *)
(***************************************************************************)
InitTrack ==
    /\ vec = [v \in Slots |-> NULL]
    /\ ghost = [v \in Slots |-> NoGhost]
    /\ track = TRUE
    /\ last = Call("init", 0, 0, 0, <<>>, Res(NULL, 0, FALSE, ""), <<>>, vec)

NextBits ==
    \/ \E type \in Types, length \in Hints : Create(1, type, length)
    \/ Free(1)
    \/ \E index \in 0..MaxLen : Set(1, index)
    \/ \E index \in 0..MaxLen : Clear(1, index)
    \/ \E index \in 0..MaxLen : Get(1, index)

SpecBits == InitTrack /\ [][NextBits]_vars

(***************************************************************************)
(* The stack model: one stream, created and then only appended to, one bit *)
(* at a time, and detached from.                                           *)
(***************************************************************************)
StackHints == {0, 3}

NextStack ==
    \/ \E length \in StackHints : Create(1, BIT_VECTOR_TYPE_STREAM, length)
    \/ \E bit \in {0, 1} : AppendBit(1, bit, MaxStack)
    \/ Detach(1)

SpecStack == InitTrack /\ [][NextStack]_vars

(***************************************************************************)
(* The string model: the initial state draws a string of '0' and '1' of up *)
(* to MaxStr characters; it is converted to a vector and back.             *)
(***************************************************************************)
BitStrings(n) == UNION {[1..k -> {48, 49}] : k \in 0..n}

InitString ==
    /\ vec = [v \in Slots |-> NULL]
    /\ ghost = [v \in Slots |-> NoGhost]
    /\ track = FALSE
    /\ \E bit_string \in BitStrings(MaxStr) :
           last = Call("input", 1, 1, 0, bit_string,
                       Res(NULL, 0, FALSE, ""), <<>>, vec)

ConvertInput ==
    /\ last.op = "input"
    /\ StringToVector(1, last.str)

NextString ==
    \/ ConvertInput
    \/ VectorToString(1)

SpecString == InitString /\ [][NextString]_vars

(***************************************************************************)
(* Vocabulary of the properties.                                           *)
(***************************************************************************)
\* the vector the last call was made on, before and after the call
Pre == last.pre[last.v]
Post == vec[last.v]

IsVector(vector) == vector # NULL
IsStream(vector) ==
    vector # NULL /\ vector.vector_type = BIT_VECTOR_TYPE_STREAM
IsArray(vector) ==
    vector # NULL /\ vector.vector_type = BIT_VECTOR_TYPE_ARRAY

\* what bit_vector_get answers for bit i
BitAt(vector, i) == bit_vector_get(vector, i).ret

\* the bit sequence a vector shows, as '0'/'1' characters
Content(vector) == bit_vector_vector_to_string(vector, FALSE).str

\* the longest prefix of a C string made of '0' and '1' only
RECURSIVE ValidPrefix(_)
ValidPrefix(str) ==
    IF str = <<>> \/ Head(str) \notin {48, 49} THEN <<>>
    ELSE <<Head(str)>> \o ValidPrefix(Tail(str))

\* the character of a bit
CharOf(bit) == bit + 48

(***************************************************************************)
(* C2: bit_vector_get, bit_vector_set and bit_vector_clear fail (-1,       *)
(* EINVAL) exactly when index >= length, on every vector the API can       *)
(* produce, also after a shrinking bit_vector_resize; a failing call       *)
(* leaves the bits, length and index as they were.                         *)
(***************************************************************************)
C2_IndexError ==
    (last.op \in {"get", "set", "clear"} /\ IsVector(Pre)) =>
        /\ (last.ret = -1) <=> (last.arg >= Pre.length)
        /\ last.ret = -1 => (last.errno = "EINVAL" /\ Post = Pre)
        /\ last.ret # -1 => last.errno = ""

\* a set one past the end of a vector that a resize shrank
C2_Witness ==
    /\ last.op = "set" /\ IsVector(Pre)
    /\ Pre.length > 0 /\ last.arg = Pre.length /\ last.ret = -1
    /\ Len(Pre.array) > BIT_VECTOR_GET_BYTE_INDEX(last.arg)

(***************************************************************************)
(* C4: on every stream the API can produce (also one bit_vector_resize     *)
(* changed), a successful bit_vector_append_bit(b) doubles length exactly  *)
(* when index = length beforehand, keeps the bits below the old index,     *)
(* makes bit old-index read b, and adds exactly 1 to index.                *)
(***************************************************************************)
C4_Append ==
    (last.op = "append_bit" /\ IsStream(Pre) /\ last.ptr) =>
        /\ Post.length = IF Pre.index = Pre.length
                         THEN 2 * Pre.length ELSE Pre.length
        /\ \A i \in 0..(Pre.index - 1) : BitAt(Post, i) = BitAt(Pre, i)
        /\ BitAt(Post, Pre.index) = last.arg
        /\ Post.index = Pre.index + 1

(***************************************************************************)
(* C5: append_bit, append_string, append_vector (as dest) and detach on an *)
(* array vector fail with an error and leave the vector as it was,         *)
(* whatever the other arguments.                                           *)
(***************************************************************************)
C5_ModeError ==
    (/\ last.op \in {"append_bit", "append_string", "append_vector", "detach"}
     /\ IsArray(Pre)) =>
        /\ IF last.op = "detach" THEN last.ret = -1 ELSE ~last.ptr
        /\ last.errno = "EINVAL"
        /\ Post = Pre

\* a valid bit appended to an array that has room for it
C5_Witness ==
    /\ last.op = "append_bit" /\ IsArray(Pre)
    /\ last.arg = 1 /\ Pre.length > 0

(***************************************************************************)
(* C6: bit_vector_detach on a stream with index = 0 fails with ENOSR and   *)
(* changes nothing; with index > 0 it takes 1 off index and returns the    *)
(* bit stored at the new index; length and the buffer never change.        *)
(***************************************************************************)
C6_Detach ==
    (last.op = "detach" /\ IsStream(Pre)) =>
        /\ Post.length = Pre.length /\ Post.array = Pre.array
        /\ Pre.index = 0 =>
              (last.ret = -1 /\ last.errno = "ENOSR" /\ Post = Pre)
        /\ Pre.index > 0 =>
              /\ Post.index = Pre.index - 1
              /\ last.ret \in {0, 1}
              /\ last.ret = ByteBit(Pre.array[(Post.index \div 8) + 1],
                                    Post.index % 8)

(***************************************************************************)
(* C7: bit_vector_append_string on a stream appends the characters left to *)
(* right as bits; it fails exactly when the text holds a character other   *)
(* than '0'/'1', and the stream then shows its previous bits followed by   *)
(* the bits of the valid prefix (index grown by the prefix length).        *)
(***************************************************************************)
C7_AppendString ==
    (last.op = "append_string" /\ IsStream(Pre) /\ last.errno # "ENOMEM") =>
        LET prefix == ValidPrefix(last.str)
        IN  /\ last.ptr <=> (prefix = last.str)
            /\ Post.index = Pre.index + Len(prefix)
            /\ Content(Post) = Content(Pre) \o prefix

\* the source vector of the last bit_vector_append_vector, before the call
PreSrc == last.pre[last.src]

\* the number of bits of a vector that count: length of an array, index of
\* a stream
NaturalLength(vector) ==
    IF vector.vector_type = BIT_VECTOR_TYPE_ARRAY
    THEN vector.length ELSE vector.index

Min(a, b) == IF a <= b THEN a ELSE b

(***************************************************************************)
(* C8: bit_vector_append_vector with size > 0 copies exactly               *)
(* min(size, natural length of src) bits: when size exceeds the natural    *)
(* length the call still succeeds, dest's index grows by the natural       *)
(* length and no bit of src beyond it is appended.                         *)
(***************************************************************************)
C8_AppendVectorCap ==
    (/\ last.op = "append_vector" /\ last.arg > 0
     /\ IsStream(Pre) /\ IsVector(PreSrc) /\ last.errno # "ENOMEM") =>
        LET n == Min(last.arg, NaturalLength(PreSrc))
        IN  /\ last.ptr
            /\ Post.index = Pre.index + n
            /\ Content(Post) = Content(Pre) \o SubSeq(Content(PreSrc), 1, n)

(***************************************************************************)
(* C9: bit_vector_append_vector(dest, src, 0) makes dest show its previous *)
(* bits followed by the bits src showed, and leaves a distinct src as it   *)
(* was; with dest = src the previous bits appear twice and index doubles,  *)
(* also when the buffer grows during the call.                             *)
(***************************************************************************)
C9_AppendVectorAll ==
    (/\ last.op = "append_vector" /\ last.arg = 0
     /\ IsStream(Pre) /\ IsVector(PreSrc) /\ last.errno # "ENOMEM") =>
        /\ last.ptr
        /\ Content(Post) = Content(Pre) \o Content(PreSrc)
        /\ last.src # last.v => vec[last.src] = PreSrc
        /\ last.src = last.v => Post.index = 2 * Pre.index

(***************************************************************************)
(* C1: a vector is a map from bit indices to bits that is all zero after   *)
(* bit_vector_create: after any sequence of set/clear calls, get(i)        *)
(* answers 1 if the last set/clear on i was a set and 0 if it was a clear  *)
(* or i was never touched; set/clear change no other bit, nor length,      *)
(* index or type, on arrays and streams alike.                             *)
(***************************************************************************)
C1_BitMap ==
    /\ IsVector(vec[1]) =>
          \A i \in 0..(vec[1].length - 1) :
              BitAt(vec[1], i) = ghost[1].bits[i + 1]
    /\ (last.op = "get" /\ IsVector(Pre) /\ last.arg < Pre.length) =>
          last.ret = ghost[1].bits[last.arg + 1]
    /\ (last.op \in {"set", "clear"} /\ IsVector(Pre)) =>
          /\ Post.length = Pre.length
          /\ Post.index = Pre.index
          /\ Post.vector_type = Pre.vector_type
          /\ Len(Post.array) = Len(Pre.array)

\* bit 8 (the first of the second byte) cleared after it was set, while its
\* neighbours 7 and 0 stay set
C1_Witness ==
    /\ last.op = "clear" /\ last.arg = 8 /\ last.ret = 0
    /\ IsVector(Pre) /\ BitAt(Pre, 8) = 1
    /\ BitAt(Post, 8) = 0 /\ BitAt(Post, 7) = 1 /\ BitAt(Post, 0) = 1

(***************************************************************************)
(* C3: a stream is a stack: from a freshly created stream, after any       *)
(* interleaving of append_bit and detach calls, every detach returns the   *)
(* bit appended last and not yet detached (-1 when there is none), index   *)
(* is the number of bits remaining and vector_to_string shows exactly the  *)
(* remaining bits in the order they were appended.                         *)
(***************************************************************************)
C3_Stack ==
    /\ IsStream(vec[1]) =>
          /\ vec[1].index = Len(ghost[1].stack)
          /\ Content(vec[1]) =
                 [i \in 1..Len(ghost[1].stack) |-> CharOf(ghost[1].stack[i])]
    /\ (last.op = "detach" /\ IsStream(Pre)) => last.ret = ghost[1].popped

\* the ninth bit, written into a byte that realloc handed out holding
\* garbage, is detached again
C3_Witness ==
    /\ last.op = "detach" /\ IsStream(Pre) /\ last.ret = 0
    /\ Pre.index = 9 /\ Pre.length = 16 /\ Pre.array[2] = 254
    /\ ghost[1].stack = <<1, 1, 0, 0, 1, 0, 1, 1>>

(***************************************************************************)
(* C10: for every string s of '0' and '1' characters (the empty string and *)
(* strings longer than the first capacity included),                       *)
(* bit_vector_string_to_vector(s) returns a stream with index = length(s)  *)
(* and bit_vector_vector_to_string of it is s.                             *)
(***************************************************************************)
C10_RoundTrip ==
    (last.op = "string_to_vector" /\ last.errno # "ENOMEM") =>
        /\ last.ptr
        /\ IsStream(vec[1])
        /\ vec[1].index = Len(last.str)
        /\ bit_vector_vector_to_string(vec[1], FALSE).ptr
        /\ bit_vector_vector_to_string(vec[1], FALSE).str = last.str

\* a string of nine characters, which outgrows the first capacity and the
\* first byte
C10_Witness ==
    /\ last.op = "string_to_vector" /\ last.ptr
    /\ last.str = <<49, 48, 48, 49, 49, 48, 48, 48, 49>>
    /\ vec[1].length = 16

(***************************************************************************)
(* bit_vector_file_output / bit_vector_file_input.  A store is the content *)
(* of the file behind fd: a sequence of bytes, byte at offset o being      *)
(* store[o + 1].  The 8-byte fields are written in the host's byte order,  *)
(* which is the same for the writer and the reader (little endian here);   *)
(* the values of the model stay below 2^31.                                *)
(***************************************************************************)
type_size == 1
length_size == 8
index_size == 8
metadata_size == type_size + length_size + index_size

\* the n low bytes of x, lowest first: the memory of a uint64_t
RECURSIVE Uint64Bytes(_, _)
Uint64Bytes(x, n) ==
    IF n = 0 THEN <<>> ELSE <<x % 256>> \o Uint64Bytes(x \div 256, n - 1)

\* the uint64_t read through a pointer to these bytes
RECURSIVE BytesUint64(_)
BytesUint64(bytes) ==
    IF bytes = <<>> THEN 0 ELSE Head(bytes) + 256 * BytesUint64(Tail(bytes))

\* pwrite(fd, buf, Len(buf), offset) on a device with room for `room` more
\* bytes: the bytes written replace the store from offset on, a hole before
\* them reads as zeros; ret is the number of bytes written
pwrite(store, buf, offset, room) ==
    LET ret == IF Len(buf) <= room THEN Len(buf) ELSE room
        end == IF ret = 0 \/ offset + ret <= Len(store)
               THEN Len(store) ELSE offset + ret
    IN  [store |-> [i \in 1..end |->
                       IF i > offset /\ i <= offset + ret THEN buf[i - offset]
                       ELSE IF i <= Len(store) THEN store[i] ELSE 0],
         ret   |-> ret]

\* pread(fd, buf, count, offset): the bytes the store holds from offset on,
\* at most count of them; ret is their number
pread(store, count, offset) ==
    LET end == IF offset + count <= Len(store) THEN offset + count
               ELSE Len(store)
        buf == IF offset >= end THEN <<>> ELSE SubSeq(store, offset + 1, end)
    IN  [buf |-> buf, ret |-> Len(buf)]

\* the result of a file function: as Res, with the store and the offset
\* afterwards (the value returned by file_output, *offset for file_input),
\* the heap blocks the call allocated and did not free (live) and the bytes
\* it moved beyond the end of the vector's buffer (beyond)
FileRes(vector, ret, ptr, errno, store, offset, live, beyond) ==
    [vector |-> vector, ret |-> ret, ptr |-> ptr, errno |-> errno,
     store |-> store, offset |-> offset, live |-> live, beyond |-> beyond]

\* bit_vector_file_output taking length as the payload size of a stream too
bit_vector_file_output_length(vector, store, offset, room, garbage) ==
    IF vector = NULL
    THEN FileRes(vector, -1, FALSE, "EINVAL", store, offset, 0, 0)
    ELSE LET metadata == <<vector.vector_type>>
                             \o Uint64Bytes(vector.length, length_size)
                             \o Uint64Bytes(vector.index, index_size)
             w1 == pwrite(store, metadata, offset, room)
             bits == vector.length
             length_of_array == BIT_VECTOR_BITS_TO_BYTES(bits)
             buf == [j \in 1..length_of_array |->
                        IF j <= Len(vector.array) THEN vector.array[j]
                        ELSE garbage]
             beyond == IF length_of_array > Len(vector.array)
                       THEN length_of_array - Len(vector.array) ELSE 0
             w2 == pwrite(w1.store, buf, offset + metadata_size,
                          room - metadata_size)
         IN  IF w1.ret < metadata_size
             THEN FileRes(vector, -1, FALSE, "", w1.store, offset, 0, 0)
             ELSE IF w2.ret < length_of_array
             THEN FileRes(vector, -1, FALSE, "", w2.store,
                          offset + metadata_size, 0, beyond)
             ELSE FileRes(vector, offset + metadata_size + length_of_array,
                          TRUE, "", w2.store,
                          offset + metadata_size + length_of_array, 0, beyond)

\* garbage is what a read beyond the end of vector->array finds
bit_vector_file_output(vector, store, offset, room, garbage) ==
    IF vector = NULL
    THEN FileRes(vector, -1, FALSE, "EINVAL", store, offset, 0, 0)
    ELSE LET metadata == <<vector.vector_type>>
                             \o Uint64Bytes(vector.length, length_size)
                             \o Uint64Bytes(vector.index, index_size)
             w1 == pwrite(store, metadata, offset, room)
             bits == IF vector.vector_type = BIT_VECTOR_TYPE_ARRAY
                     THEN vector.length ELSE vector.index
             length_of_array == BIT_VECTOR_BITS_TO_BYTES(bits)
             buf == [j \in 1..length_of_array |->
                        IF j <= Len(vector.array) THEN vector.array[j]
                        ELSE garbage]
             beyond == IF length_of_array > Len(vector.array)
                       THEN length_of_array - Len(vector.array) ELSE 0
             w2 == pwrite(w1.store, buf, offset + metadata_size,
                          room - metadata_size)
         IN  IF w1.ret < metadata_size
             THEN FileRes(vector, -1, FALSE, "", w1.store, offset, 0, 0)
             ELSE IF w2.ret < length_of_array
             THEN FileRes(vector, -1, FALSE, "", w2.store,
                          offset + metadata_size, 0, beyond)
             ELSE FileRes(vector, offset + metadata_size + length_of_array,
                          TRUE, "", w2.store,
                          offset + metadata_size + length_of_array, 0, beyond)

\* bit_vector_file_input without the bit_vector_free of its short payload read
bit_vector_file_input_leak(store, offset, shift, nomem) ==
    LET r1 == pread(store, metadata_size, offset)
    IN  IF r1.ret < metadata_size
        THEN FileRes(NULL, 0, FALSE, "", store, offset, 0, 0)
        ELSE
        LET type   == r1.buf[1]
            length == BytesUint64(SubSeq(r1.buf, type_size + 1,
                                         type_size + length_size))
            index  == BytesUint64(SubSeq(r1.buf, type_size + length_size + 1,
                                         metadata_size))
            created == bit_vector_create(type, length, shift, nomem)
        IN  IF created = NULL
            THEN FileRes(NULL, 0, FALSE, "ENOMEM", store,
                         offset + metadata_size, 0, 0)
            ELSE
            LET vector == [created EXCEPT !.index = index]
                bits == IF vector.vector_type = BIT_VECTOR_TYPE_ARRAY
                        THEN vector.length ELSE vector.index
                length_of_array == BIT_VECTOR_BITS_TO_BYTES(bits)
                r2 == pread(store, length_of_array, offset + metadata_size)
                beyond == IF r2.ret > Len(vector.array)
                          THEN r2.ret - Len(vector.array) ELSE 0
                filled == [vector EXCEPT !.array =
                              [j \in 1..Len(vector.array) |->
                                  IF j <= r2.ret THEN r2.buf[j]
                                  ELSE vector.array[j]]]
            IN  IF r2.ret < length_of_array
                THEN FileRes(NULL, 0, FALSE, "", store,
                             offset + metadata_size, 2, beyond)
                ELSE FileRes(filled, 0, TRUE, "", store,
                             offset + metadata_size + length_of_array,
                             2, beyond)

\* shift and nomem are those of bit_vector_create
bit_vector_file_input(store, offset, shift, nomem) ==
    LET r1 == pread(store, metadata_size, offset)
    IN  IF r1.ret < metadata_size
        THEN FileRes(NULL, 0, FALSE, "", store, offset, 0, 0)
        ELSE
        LET type   == r1.buf[1]
            length == BytesUint64(SubSeq(r1.buf, type_size + 1,
                                         type_size + length_size))
            index  == BytesUint64(SubSeq(r1.buf, type_size + length_size + 1,
                                         metadata_size))
            created == bit_vector_create(type, length, shift, nomem)
        IN  IF created = NULL
            THEN FileRes(NULL, 0, FALSE, "ENOMEM", store,
                         offset + metadata_size, 0, 0)
            ELSE
            LET vector == [created EXCEPT !.index = index]
                bits == IF vector.vector_type = BIT_VECTOR_TYPE_ARRAY
                        THEN vector.length ELSE vector.index
                length_of_array == BIT_VECTOR_BITS_TO_BYTES(bits)
                r2 == pread(store, length_of_array, offset + metadata_size)
                beyond == IF r2.ret > Len(vector.array)
                          THEN r2.ret - Len(vector.array) ELSE 0
                filled == [vector EXCEPT !.array =
                              [j \in 1..Len(vector.array) |->
                                  IF j <= r2.ret THEN r2.buf[j]
                                  ELSE vector.array[j]]]
            IN  IF r2.ret < length_of_array
                THEN FileRes(NULL, 0, FALSE, "", store,
                             offset + metadata_size, 0, beyond)
                ELSE FileRes(filled, 0, TRUE, "", store,
                             offset + metadata_size + length_of_array,
                             2, beyond)

(***************************************************************************)
(* The file model, after the driver of tests/array.c: the file is opened   *)
(* with O_TRUNC | O_CREAT (empty) for bit_vector_file_output and read back *)
(* by bit_vector_file_input.  The store is carried from one file call to   *)
(* the next in last.out.  Handle 1 is the vector written, handle 2         *)
(* receives the vector read; the driver works on handle 1 while handle 2   *)
(* is free.                                                                *)
(***************************************************************************)
Store == IF last.op \in {"file_output", "file_input"} THEN last.out.store
         ELSE <<>>

\* encoded: the call wrote a vector in full (file_output), or reads, at the
\* same offset, the store the call before it wrote in full (file_input)
FileOut(r, encoded) ==
    [store |-> r.store, offset |-> r.offset, live |-> r.live,
     beyond |-> r.beyond, encoded |-> encoded]

\* the bytes of the payload that lie beyond vector->array
ReadsBeyond(vector) ==
    /\ vector # NULL
    /\ BIT_VECTOR_BITS_TO_BYTES(IF vector.vector_type = BIT_VECTOR_TYPE_ARRAY
                                THEN vector.length ELSE vector.index)
           > Len(vector.array)

FileOutput(v, offset, room) ==
    \E garbage \in IF ReadsBeyond(vec[v]) THEN GarbageBytes ELSE {0} :
        LET r == bit_vector_file_output(vec[v], <<>>, offset, room, garbage)
        IN  /\ vec' = [vec EXCEPT ![v] = r.vector]
            /\ last' = Call("file_output", v, v, offset, <<>>, r,
                            FileOut(r, r.ptr), vec)
            /\ Track

\* store is the file read: the one the calls so far left, or a shorter one
FileInput(v, store, offset) ==
    /\ vec[v] = NULL
    /\ \E shift \in UndefinedShift, nomem \in BOOLEAN :
         LET r == bit_vector_file_input(store, offset, shift, nomem)
             encoded == /\ last.op = "file_output"
                        /\ last.ptr
                        /\ last.arg = offset
                        /\ store = last.out.store
         IN  /\ vec' = [vec EXCEPT ![v] = r.vector]
             /\ last' = Call("file_input", v,
                             IF last.op = "file_output" THEN last.v ELSE v,
                             offset, <<>>, r, FileOut(r, encoded), vec)
             /\ Track

\* the files a read can find: the store, the store without its last byte,
\* and a store that ends inside the header
Cuts(store) == {Len(store), Len(store) - 1, metadata_size - 1}
                   \cap (0..Len(store))

FileHints == {0, 3, 8}
FileIndices == {0, 7}
FileLengths == {0, 3}
FileStrings == {<<49, 48>>, <<49, 48, 49, 49, 48, 48, 49, 49>>}
Offsets == {0, 3}
Rooms == {metadata_size - 1, metadata_size, 4 * metadata_size}

\* a read starts where the call before it wrote or read: the header fields
\* found at another offset are numbers beyond the model's bounds
ReadOffsets == IF Store = <<>> THEN Offsets ELSE {last.arg}

NextFile ==
    \/ \E type \in Types, length \in FileHints : Create(1, type, length)
    \/ Free(2)
    \/ vec[2] = NULL /\ \E index \in FileIndices : Set(1, index)
    \/ vec[2] = NULL /\ \E length \in FileLengths : Resize(1, length)
    \/ vec[2] = NULL /\ \E bit_string \in FileStrings :
                            AppendString(1, bit_string, BIT_VECTOR_BITS_IN_BYTE)
    \/ vec[2] = NULL /\ \E offset \in Offsets, room \in Rooms :
                            FileOutput(1, offset, room)
    \/ \E offset \in ReadOffsets, n \in Cuts(Store) :
           FileInput(2, SubSeq(Store, 1, n), offset)

SpecFile == Init /\ [][NextFile]_vars

\* ceil(b / 8)
CeilBytes(b) == (b + BIT_VECTOR_BITS_IN_BYTE - 1) \div BIT_VECTOR_BITS_IN_BYTE

\* the bytes a successful bit_vector_file_output put after its header
Payload == SubSeq(last.out.store, last.arg + metadata_size + 1,
                  Len(last.out.store))

\* the header holds the type tag (0 stream, 1 array), length and index
HeaderOf(vector) ==
    LET header == SubSeq(last.out.store, last.arg + 1,
                         last.arg + metadata_size)
    IN  /\ header[1] = (IF IsStream(vector) THEN 0 ELSE 1)
        /\ BytesUint64(SubSeq(header, 2, 9)) = vector.length
        /\ BytesUint64(SubSeq(header, 10, 17)) = vector.index

(***************************************************************************)
(* C11 as the specification states it: a successful                        *)
(* bit_vector_file_output writes the 17-byte header followed by exactly    *)
(* ceil(payload_bits / 8) payload bytes and returns                        *)
(* offset + 17 + ceil(payload_bits / 8), for every payload_bits, 0 and the *)
(* multiples of 8 included.                                                *)
(***************************************************************************)
C11_EncodeCeil ==
    (last.op = "file_output" /\ IsVector(Pre) /\ last.ptr) =>
        /\ HeaderOf(Pre)
        /\ Len(Payload) = CeilBytes(NaturalLength(Pre))
        /\ last.ret = last.arg + 17 + CeilBytes(NaturalLength(Pre))

(***************************************************************************)
(* C11 as the code has it: a successful bit_vector_file_output writes the  *)
(* 17-byte header followed by exactly floor(payload_bits / 8) + 1 payload  *)
(* bytes, which are the bytes of the buffer as far as the buffer reaches,  *)
(* and returns offset + 17 + floor(payload_bits / 8) + 1: one byte more    *)
(* than ceil(payload_bits / 8) when payload_bits is 0 or a multiple of 8.  *)
(***************************************************************************)
C11_EncodeFloor ==
    (last.op = "file_output" /\ IsVector(Pre) /\ last.ptr) =>
        LET n == (NaturalLength(Pre) \div 8) + 1
        IN  /\ HeaderOf(Pre)
            /\ Len(Payload) = n
            /\ \A j \in 1..n : j <= Len(Pre.array) => Payload[j] = Pre.array[j]
            /\ last.ret = last.arg + 17 + n
            /\ n = CeilBytes(NaturalLength(Pre))
                   + (IF NaturalLength(Pre) % 8 = 0 THEN 1 ELSE 0)

\* an array of 8 bits with bit 7 set, written at offset 3: 2 payload bytes
C11_Witness ==
    /\ last.op = "file_output" /\ IsArray(Pre) /\ last.ptr
    /\ Pre.length = 8 /\ Pre.array[1] = 128 /\ last.arg = 3
    /\ last.ret = 22 /\ Len(last.out.store) = 22

(***************************************************************************)
(* C12: for every vector the API can produce, of either type,              *)
(* bit_vector_file_output followed by bit_vector_file_input at the same    *)
(* offset of the same store succeeds and returns a vector of the same      *)
(* type, with the same index, that bit_vector_vector_to_string shows as    *)
(* the vector written; bit_vector_file_output leaves the vector as it was. *)
(***************************************************************************)
C12_FileRoundTrip ==
    /\ (last.op = "file_input" /\ last.out.encoded /\ last.errno # "ENOMEM") =>
          /\ last.ptr
          /\ IsVector(Post)
          /\ Post.vector_type = PreSrc.vector_type
          /\ Post.index = PreSrc.index
          /\ Content(Post) = Content(PreSrc)
    /\ (last.op = "file_output" /\ IsVector(Pre)) => Post = Pre

\* the length field of the header bit_vector_file_input read
HeaderLength ==
    BytesUint64(SubSeq(last.out.store, last.arg + type_size + 1,
                       last.arg + type_size + length_size))

(***************************************************************************)
(* C13: the vector bit_vector_file_input returns has exactly the length    *)
(* stored in the header, for a stream as for an array: no second rounding  *)
(* to a power of two.                                                      *)
(***************************************************************************)
C13_DecodeCapacity ==
    (last.op = "file_input" /\ last.ptr) => Post.length = HeaderLength

(***************************************************************************)
(* C14: when bit_vector_file_input fails on a short header read or a short *)
(* payload read, it returns NULL and no block it allocated stays           *)
(* allocated: the partly built vector was freed.                           *)
(***************************************************************************)
C14_NoLeak ==
    (last.op = "file_input" /\ ~last.ptr) =>
        /\ Post = NULL
        /\ last.out.live = 0

\* the header was read and the vector created; the payload read was short
C14_Witness ==
    /\ last.op = "file_input" /\ ~last.ptr /\ last.errno = ""
    /\ last.out.offset = last.arg + metadata_size
    /\ Len(last.out.store) >= last.arg + metadata_size
    /\ HeaderLength = 8

(***************************************************************************)
(* C15 as the specification states it: every vector's buffer is            *)
(* ceil(length / 8) + 1 bytes long, after bit_vector_create,               *)
(* bit_vector_resize, the growth of an append and bit_vector_file_input.   *)
(***************************************************************************)
C15_StorageCeil ==
    \A v \in Slots :
        IsVector(vec[v]) => Len(vec[v].array) = CeilBytes(vec[v].length) + 1

(***************************************************************************)
(* C15 as the code has it: every vector's buffer is floor(length / 8) + 1  *)
(* bytes long, after bit_vector_create, bit_vector_resize, the growth of   *)
(* an append and bit_vector_file_input; that is ceil(length / 8) + 1 only  *)
(* when length is a multiple of 8, and ceil(length / 8) otherwise.         *)
(***************************************************************************)
C15_StorageFloor ==
    \A v \in Slots :
        IsVector(vec[v]) =>
            /\ Len(vec[v].array) = (vec[v].length \div 8) + 1
            /\ Len(vec[v].array) =
                   CeilBytes(vec[v].length)
                       + (IF vec[v].length % 8 = 0 THEN 1 ELSE 0)

\* a stream that was resized to 3 bits and written is read back, as a
\* stream of 4 bits: both buffers are 1 byte long
C15_Witness ==
    /\ last.op = "file_input" /\ last.ptr /\ IsStream(Post)
    /\ IsStream(PreSrc) /\ PreSrc.length = 3 /\ Len(PreSrc.array) = 1
    /\ Post.length = 4 /\ Len(Post.array) = 1

(***************************************************************************)
(* C16: every stream the API can produce (create, set, clear, resize to    *)
(* any length, 0 included, append_bit, append_string, append_vector,       *)
(* detach) has 0 <= index <= length.                                       *)
(***************************************************************************)
C16_IndexInvariant ==
    \A v \in Slots :
        IsStream(vec[v]) => (0 <= vec[v].index /\ vec[v].index <= vec[v].length)

(***************************************************************************)
(* C19: a successful bit_vector_resize(v, n) sets length to n, keeps every *)
(* bit below min(old length, n) and leaves type and index untouched; when  *)
(* realloc fails it returns NULL and the buffer, length, index and bits    *)
(* are as before the call.                                                 *)
(***************************************************************************)
C19_Resize ==
    (last.op = "resize" /\ IsVector(Pre)) =>
        IF last.ptr
        THEN /\ Post.length = last.arg
             /\ \A i \in 0..(Min(Pre.length, last.arg) - 1) :
                    BitAt(Post, i) = BitAt(Pre, i)
             /\ Post.vector_type = Pre.vector_type
             /\ Post.index = Pre.index
        ELSE /\ last.errno = "ENOMEM"
             /\ Post = Pre

\* a vector of 3 bits with bit 0 set grows to MaxLen bits and realloc hands
\* out a second byte of ones
C19_Witness ==
    /\ last.op = "resize" /\ IsVector(Pre) /\ last.ptr
    /\ Pre.length = 3 /\ last.arg = MaxLen /\ BitAt(Pre, 0) = 1
    /\ Post.array[2] = 255 /\ BitAt(Post, 0) = 1

(***************************************************************************)
(* The growth model, after the driver of unnamed/part_000: a vector is     *)
(* created and a run of bits is appended to it, one bit_vector_append_bit  *)
(* per bit, return values ignored.                                         *)
(***************************************************************************)
\* largest number of bits the driver appends
MaxGrow == 9

\* the driver's for loop from bit i (1-based) on.  ret counts the appends
\* that succeeded, resizes the calls of bit_vector_resize, doubled tells
\* whether every successful one of them left twice the length it found
RECURSIVE append_bits_loop(_, _, _, _, _, _)
append_bits_loop(vector, bits, i, garbage, nomem, acc) ==
    IF i > Len(bits)
    THEN [vector |-> vector, ret |-> acc.ret, ptr |-> acc.ret = Len(bits),
          errno |-> acc.errno, resizes |-> acc.resizes,
          doubled |-> acc.doubled]
    ELSE LET r == bit_vector_append_bit(vector, bits[i], garbage, nomem)
             called == ReachesRealloc(vector, bits[i])
         IN  append_bits_loop(
                 r.vector, bits, i + 1, garbage, nomem,
                 [ret     |-> acc.ret + (IF r.ptr THEN 1 ELSE 0),
                  errno   |-> IF r.ptr THEN acc.errno ELSE r.errno,
                  resizes |-> acc.resizes + (IF called THEN 1 ELSE 0),
                  doubled |-> /\ acc.doubled
                              /\ (called /\ r.ptr) =>
                                     r.vector.length = 2 * vector.length])

AppendBits(v, bits) ==
    \E garbage \in GarbageBytes, nomem \in BOOLEAN :
        LET r == append_bits_loop(vec[v], bits, 1, garbage, nomem,
                                  [ret |-> 0, errno |-> "", resizes |-> 0,
                                   doubled |-> TRUE])
        IN  /\ vec' = [vec EXCEPT ![v] = r.vector]
            /\ last' = Call("append_bits", v, v, Len(bits), bits, r,
                            [resizes |-> r.resizes, doubled |-> r.doubled],
                            vec)
            /\ Track

GrowHints == {0, 1, 3, 4}

\* the runs of bits rand() % 2 can give
BitRuns(n) == UNION {[1..k -> {0, 1}] : k \in 1..n}

NextGrow ==
    \/ \E type \in Types, length \in GrowHints : Create(1, type, length)
    \/ /\ vec[1] # NULL
       /\ last.op = "create"
       /\ \E bits \in BitRuns(MaxGrow) : AppendBits(1, bits)

SpecGrow == Init /\ [][NextGrow]_vars

\* the smallest power of two that is >= h, for h >= 1
SmallestPow2(h) ==
    CHOOSE p \in {Pow2(k) : k \in 0..h} :
        /\ p >= h
        /\ \A k \in 0..h : Pow2(k) >= h => p <= Pow2(k)

\* ceil(log2(n)), for n >= 1
CeilLog2(n) == CHOOSE k \in 0..n : Pow2(k) = SmallestPow2(n)

Max(a, b) == IF a >= b THEN a ELSE b

(***************************************************************************)
(* C17: bit_vector_create(STREAM, h) with h >= 1 gives index 0 and the     *)
(* smallest power of two >= h as length, so that a hint that is a power of *)
(* two (1, 4) is kept.                                                     *)
(***************************************************************************)
C17_CreateRounding ==
    (/\ last.op = "create" /\ last.src = BIT_VECTOR_TYPE_STREAM
     /\ last.arg >= 1 /\ last.ptr) =>
        /\ Post.index = 0
        /\ Post.length = SmallestPow2(last.arg)

(***************************************************************************)
(* C18: bit_vector_create(STREAM, 0) succeeds with length 1 and index 0;   *)
(* bit_vector_create(ARRAY, 0) is rejected and returns no vector.          *)
(***************************************************************************)
C18_CreateZero ==
    (last.op = "create" /\ last.arg = 0) =>
        IF last.src = BIT_VECTOR_TYPE_STREAM
        THEN last.ptr => (Post.length = 1 /\ Post.index = 0)
        ELSE ~last.ptr /\ Post = NULL

(***************************************************************************)
(* C20: appending N >= 1 bits to a stream just created calls               *)
(* bit_vector_resize at most ceil(log2(N)) + 1 times, each call doubles    *)
(* length, and the final length is below 2 * max(N, first length).         *)
(***************************************************************************)
C20_Growth ==
    (/\ last.op = "append_bits" /\ IsStream(Pre) /\ Pre.index = 0
     /\ last.arg >= 1 /\ last.ptr) =>
        /\ Post.index = last.arg
        /\ last.out.resizes <= CeilLog2(last.arg) + 1
        /\ last.out.doubled
        /\ Post.length < 2 * Max(last.arg, Pre.length)

\* MaxGrow bits appended to a stream of 1 bit: the length doubles until it
\* passes MaxGrow
C20_Witness ==
    /\ last.op = "append_bits" /\ IsStream(Pre) /\ last.ptr
    /\ Pre.length = 1 /\ last.arg = MaxGrow
    /\ last.out.resizes = CeilLog2(MaxGrow)
    /\ Post.length = SmallestPow2(MaxGrow)
    /\ Post.length > Pre.length

(***************************************************************************)
(* Addressing of the buffer: the bytes allocated for a vector are the      *)
(* elements of its array, and bit i lives in byte                          *)
(* BIT_VECTOR_GET_BYTE_INDEX(i).                                           *)
(***************************************************************************)
\* the number of bytes calloc or realloc last handed out for the buffer
AllocatedBytes(vector) == Len(vector.array)

\* the indices bit_vector_set, bit_vector_clear and bit_vector_get let through
PassesBoundsCheck(vector, i) == vector # NULL /\ i < vector.length

(***************************************************************************)
(* C21: in every state reached through create, resize, append_bit,         *)
(* append_string, append_vector and detach (set, clear, get and            *)
(* vector_to_string included), every index i below length maps to a byte   *)
(* BIT_VECTOR_GET_BYTE_INDEX(i) strictly below the number of bytes         *)
(* allocated for the buffer, and every set, clear or get that passed the   *)
(* bounds check touched a byte inside the buffer it was given.             *)
(***************************************************************************)
C21_MemorySafety ==
    /\ \A v \in Slots :
           IsVector(vec[v]) =>
               \A i \in 0..(vec[v].length - 1) :
                   BIT_VECTOR_GET_BYTE_INDEX(i) < AllocatedBytes(vec[v])
    /\ (last.op \in {"set", "clear", "get"} /\ PassesBoundsCheck(Pre, last.arg)) =>
           /\ last.ret # -1
           /\ BIT_VECTOR_GET_BYTE_INDEX(last.arg) < AllocatedBytes(Pre)

\* a set of a bit of the last byte of the buffer of a vector of MaxLen bits
C21_Witness ==
    /\ last.op = "set" /\ PassesBoundsCheck(Pre, last.arg)
    /\ last.arg >= BIT_VECTOR_BITS_IN_BYTE
    /\ BIT_VECTOR_GET_BYTE_INDEX(last.arg) = AllocatedBytes(Pre) - 1
    /\ Pre.length = MaxLen
    /\ Post.array[AllocatedBytes(Post)] # Pre.array[AllocatedBytes(Pre)]

(***************************************************************************)
(* The decode model: the initial state draws the file                      *)
(* bit_vector_file_input finds, a header of any type byte, length and      *)
(* index followed by up to MaxPayload bytes, at one of the offsets; the    *)
(* file is read once into handle 2.                                        *)
(***************************************************************************)
MaxPayload == 3

\* the type bytes: the two types and a byte that is neither
TypeBytes == Types \cup {2}
HeaderLengths == {0, 3, 8, 9}
HeaderIndices == {0, 3, 8, 9, 16}
Payloads(n) == UNION {[1..k -> GarbageBytes] : k \in 0..n}

\* the file: a hole up to offset, the 17 bytes of the header, the payload
StoreOf(offset, type, length, index, payload) ==
    [i \in 1..offset |-> 0]
        \o <<type>> \o Uint64Bytes(length, length_size)
        \o Uint64Bytes(index, index_size) \o payload

InitDecode ==
    /\ vec = [v \in Slots |-> NULL]
    /\ ghost = [v \in Slots |-> NoGhost]
    /\ track = FALSE
    /\ \E offset \in Offsets, type \in TypeBytes, length \in HeaderLengths,
          index \in HeaderIndices, payload \in Payloads(MaxPayload) :
           last = Call("open", 2, 2, offset, <<>>, Res(NULL, 0, FALSE, ""),
                       [store  |-> StoreOf(offset, type, length, index, payload),
                        offset |-> offset, live |-> 0, beyond |-> 0,
                        encoded |-> FALSE],
                       vec)

DecodeStore ==
    /\ last.op = "open"
    /\ FileInput(2, last.out.store, last.arg)

NextDecode ==
    \/ DecodeStore
    \/ last.op = "file_input" /\ vec[2] # NULL /\ Free(2)

SpecDecode == InitDecode /\ [][NextDecode]_vars

(***************************************************************************)
(* C22: for every 17-byte header (any type byte, length and index, index   *)
(* above length included) bit_vector_file_input either fails or returns a  *)
(* vector with index <= length, and the payload bytes it reads into the    *)
(* buffer never number more than the bytes allocated for the buffer.       *)
(***************************************************************************)
C22_DecodeSafe ==
    last.op = "file_input" =>
        /\ IsVector(Post) => Post.index <= Post.length
        /\ last.out.beyond = 0

====
